---- MODULE Spec2Model ----
(***************************************************************************)
(* Imagine-core lexer: the character-driven state machine of               *)
(* src/src/statemachine.rs and the driver loop of src/src/lexer.rs.        *)
(*                                                                         *)
(* A character is a one-element string; a text is a sequence of            *)
(* characters.  Characters outside ASCII are written by their code point   *)
(* ("U+00E9"), and Utf8Len gives the number of bytes of their encoding.    *)
(***************************************************************************)
EXTENDS Integers, Sequences, FiniteSets, TLC

VARIABLES
    text,      \* ImagineLexer.text, as a sequence of characters
    pos,       \* ImagineLexer.pos
    state,     \* ImagineMachine.current_state
    caller,    \* who drives the lexer: "none" | "lex" | "user"
    pc,        \* "idle" | "loop" | "done" | "error" | "panic"
    tokens,    \* lex's local vector (and its Ok value once pc = "done")
    ret,       \* what the latest get_new_token call returned
    last,      \* the latest State::feed call: state before, input, outcome
    fed,       \* the tokens Machine.feed has returned so far, in order
    nfeeds,    \* the number of Machine.feed calls made so far
    ncalls,    \* the number of get_new_token calls made so far
    lexemes    \* the text behind each token get_new_token has returned

vars ==
    <<text, pos, state, caller, pc, tokens, ret, last, fed, nfeeds, ncalls,
      lexemes>>

----------------------------------------------------------------------------
(* Bounds of the check *)

\* the longest text enumerated over Alphabet
MaxLen == 3

\* how many get_new_token calls a direct caller makes
MaxCalls == 5

----------------------------------------------------------------------------
(* Characters and their classes (char::is_numeric, is_alphabetic, ...) *)

Digits == {"0", "1", "2", "3", "4", "5", "6", "7", "8", "9"}

\* U+00BD (one half): numeric for char::is_numeric, not an ASCII digit
OtherNumeric == {"U+00BD"}

AsciiLetters ==
    {"a", "b", "c", "d", "e", "f", "g", "h", "i", "j", "k", "l", "m",
     "n", "o", "p", "q", "r", "s", "t", "u", "v", "w", "x", "y", "z"}

\* U+00E9 (e with acute): alphabetic, two bytes in UTF-8
OtherLetters == {"U+00E9"}

Whitespace == {" ", "\n", "\t"}

Brackets == {"(", ")", "{", "}"}

IsNumeric(c) == c \in Digits \cup OtherNumeric

IsAlphabetic(c) == c \in AsciiLetters \cup OtherLetters

IsAlphanumeric(c) == IsAlphabetic(c) \/ IsNumeric(c)

IsWhitespace(c) == c \in Whitespace

is_operator(c) ==
    c \in {"+", "-", "=", "/", "*", "!", "<", ">", "~", "|", "&", "^"}

KEYWORD_LIST == { <<"i", "f">> }

\* bytes of the UTF-8 encoding of a character
Utf8Len(c) == IF c \in OtherNumeric \cup OtherLetters THEN 2 ELSE 1

RECURSIVE ByteLen(_)
\* String::len: the length of the text in bytes
ByteLen(s) == IF s = << >> THEN 0 ELSE Utf8Len(Head(s)) + ByteLen(Tail(s))

----------------------------------------------------------------------------
(* Tokens *)

Tok(t, n, k, s) == [type |-> t, num |-> n, scale |-> k, str |-> s]

NumberTok(n)   == Tok("Number", n, 0, << >>)
\* a Float payload is the decimal mant / 10^scale, trailing zeros dropped
FloatTok(m, k) == Tok("Float", m, k, << >>)
IdentTok(s)    == Tok("Ident", 0, 0, s)
KeywordTok(s)  == Tok("Keyword", 0, 0, s)
OperatorTok(s) == Tok("Operator", 0, 0, s)
LPAR           == Tok("LPAR", 0, 0, << >>)
RPAR           == Tok("RPAR", 0, 0, << >>)
LBR            == Tok("LBR", 0, 0, << >>)
RBR            == Tok("RBR", 0, 0, << >>)
BlankTok       == Tok("Blank", 0, 0, << >>)
\* Option::None where a token is optional
NoToken        == Tok("None", 0, 0, << >>)

----------------------------------------------------------------------------
(* str::parse *)

I32_MAX == 2147483647

DigitVal(c) ==
    CASE c = "0" -> 0 [] c = "1" -> 1 [] c = "2" -> 2 [] c = "3" -> 3
      [] c = "4" -> 4 [] c = "5" -> 5 [] c = "6" -> 6 [] c = "7" -> 7
      [] c = "8" -> 8 [] c = "9" -> 9 [] OTHER -> 0

RECURSIVE ParseI32From(_, _)
\* the checked accumulation of parse::<i32>: -1 on a non-digit or an overflow
ParseI32From(acc, s) ==
    IF s = << >> THEN acc
    ELSE IF Head(s) \notin Digits THEN -1
    ELSE IF acc > I32_MAX \div 10 THEN -1
    ELSE IF acc * 10 > I32_MAX - DigitVal(Head(s)) THEN -1
    ELSE ParseI32From(acc * 10 + DigitVal(Head(s)), Tail(s))

\* value.parse::<i32>(): the value, or -1 for Err
ParseI32(s) == IF s = << >> THEN -1 ELSE ParseI32From(0, s)

\* the 1-based index of the first c in s, 0 when there is none
IndexOf(s, c) ==
    IF \E i \in 1..Len(s) : s[i] = c
    THEN CHOOSE i \in 1..Len(s) :
             s[i] = c /\ \A j \in 1..(i - 1) : s[j] # c
    ELSE 0

RECURSIVE DropTrailingZeros(_)
DropTrailingZeros(s) ==
    IF s # << >> /\ s[Len(s)] = "0"
    THEN DropTrailingZeros(SubSeq(s, 1, Len(s) - 1))
    ELSE s

RECURSIVE DecimalVal(_, _)
\* the natural number a digit string denotes, -1 on a non-digit
DecimalVal(acc, s) ==
    IF s = << >> THEN acc
    ELSE IF Head(s) \notin Digits THEN -1
    ELSE DecimalVal(acc * 10 + DigitVal(Head(s)), Tail(s))

\* the digits before the '.', and those after it without trailing zeros
IntPart(s) == SubSeq(s, 1, IndexOf(s, ".") - 1)

FracPart(s) == DropTrailingZeros(SubSeq(s, IndexOf(s, ".") + 1, Len(s)))

\* value.parse::<f32>() of digits '.' digits: ok, and the decimal it denotes
ParseF32(s) ==
    IF \/ IndexOf(s, ".") = 0
       \/ IntPart(s) = << >>
       \/ DecimalVal(0, IntPart(s) \o FracPart(s)) = -1
    THEN [ok |-> FALSE, mant |-> 0, scale |-> 0]
    ELSE [ok |-> TRUE, mant |-> DecimalVal(0, IntPart(s) \o FracPart(s)),
          scale |-> Len(FracPart(s))]

----------------------------------------------------------------------------
(* Lex states: struct Blank, Number, Float, Ident, Operator, Lpar, ... *)

St(k, v, kw) == [kind |-> k, value |-> v, is_keyword |-> kw]

Blank           == St("Blank", << >>, FALSE)
Number(v)       == St("Number", v, FALSE)
Float(v)        == St("Float", v, FALSE)
Ident(v, kw)    == St("Ident", v, kw)
Operator(v)     == St("Operator", v, FALSE)
Lpar            == St("Lpar", << >>, FALSE)
Rpar            == St("Rpar", << >>, FALSE)
Lbr             == St("Lbr", << >>, FALSE)
Rbr             == St("Rbr", << >>, FALSE)

BracketKinds == {"Lpar", "Rpar", "Lbr", "Rbr"}

\* Result<Update, Errors> of State::feed, or a panic inside it
Ok(st, tok) == [res |-> "ok", state |-> st, token |-> tok]
Err         == [res |-> "err", state |-> Blank, token |-> NoToken]
Panic       == [res |-> "panic", state |-> Blank, token |-> NoToken]

\* Result::unwrap().0 followed by Some(token): a panic when the result is Err
UnwrapThen(r, tok) ==
    IF r.res = "ok" /\ tok.res = "ok" THEN Ok(r.state, tok.token) ELSE Panic

\* State::get_token of each state, or a panic inside it
GetToken(self) ==
    CASE self.kind = "Number" ->
           IF ParseI32(self.value) = -1 THEN Panic
           ELSE Ok(self, NumberTok(ParseI32(self.value)))
      [] self.kind = "Float" ->
           IF ParseF32(self.value).ok
           THEN Ok(self, FloatTok(ParseF32(self.value).mant,
                                  ParseF32(self.value).scale))
           ELSE Panic
      [] self.kind = "Ident" ->
           IF self.is_keyword THEN Ok(self, KeywordTok(self.value))
           ELSE Ok(self, IdentTok(self.value))
      [] self.kind = "Operator" -> Ok(self, OperatorTok(self.value))
      [] self.kind = "Lpar" -> Ok(self, LPAR)
      [] self.kind = "Rpar" -> Ok(self, RPAR)
      [] self.kind = "Lbr" -> Ok(self, LBR)
      [] self.kind = "Rbr" -> Ok(self, RBR)
      [] OTHER -> Ok(self, BlankTok)

\* Emit taking the token of the next state instead of self
Emit_OfNextState(self, st) ==
    IF GetToken(st).res = "ok" THEN Ok(st, GetToken(st).token) ELSE Panic

\* Some(self.get_token()) with the next state st
Emit(self, st) ==
    IF GetToken(self).res = "ok" THEN Ok(st, GetToken(self).token) ELSE Panic

\* BlankFeed that starts an Ident at a letter only, not at '_'
BlankFeed_NoUnderscore(input) ==
    IF IsNumeric(input) THEN Ok(Number(<<input>>), NoToken)
    ELSE IF IsAlphabetic(input) THEN Ok(Ident(<<input>>, FALSE), NoToken)
    ELSE IF IsWhitespace(input) \/ input = "\n" THEN Ok(Blank, NoToken)
    ELSE IF is_operator(input) THEN Ok(Operator(<<input>>), NoToken)
    ELSE IF input = "(" THEN Ok(Lpar, NoToken)
    ELSE IF input = ")" THEN Ok(Rpar, NoToken)
    ELSE IF input = "{" THEN Ok(Lbr, NoToken)
    ELSE IF input = "}" THEN Ok(Rbr, NoToken)
    ELSE Err

BlankFeed(input) ==
    IF IsNumeric(input) THEN Ok(Number(<<input>>), NoToken)
    ELSE IF IsAlphabetic(input) \/ input = "_"
         THEN Ok(Ident(<<input>>, FALSE), NoToken)
    ELSE IF IsWhitespace(input) \/ input = "\n" THEN Ok(Blank, NoToken)
    ELSE IF is_operator(input) THEN Ok(Operator(<<input>>), NoToken)
    ELSE IF input = "(" THEN Ok(Lpar, NoToken)
    ELSE IF input = ")" THEN Ok(Rpar, NoToken)
    ELSE IF input = "{" THEN Ok(Lbr, NoToken)
    ELSE IF input = "}" THEN Ok(Rbr, NoToken)
    ELSE Err

\* LparFeed that drops the character instead of passing it to Blank
LparFeed_NoRedispatch(self, input) == Emit(self, Blank)

LparFeed(self, input) ==
    IF IsWhitespace(input) \/ input = "\n" THEN Emit(self, Blank)
    ELSE UnwrapThen(BlankFeed(input), GetToken(self))

RparFeed(self, input) ==
    IF IsWhitespace(input) \/ input = "\n" THEN Emit(self, Blank)
    ELSE UnwrapThen(BlankFeed(input), GetToken(self))

LbrFeed(self, input) ==
    IF IsWhitespace(input) \/ input = "\n" THEN Emit(self, Blank)
    ELSE UnwrapThen(BlankFeed(input), GetToken(self))

RbrFeed(self, input) ==
    IF IsWhitespace(input) \/ input = "\n" THEN Emit(self, Blank)
    ELSE UnwrapThen(BlankFeed(input), GetToken(self))

\* OperatorFeed emitting at every operator character (no accumulation)
OperatorFeed_NotGreedy(self, input) ==
    IF is_operator(input) THEN Emit(self, Operator(<<input>>))
    ELSE IF IsWhitespace(input) \/ input = "\n" THEN Emit(self, Blank)
    ELSE UnwrapThen(BlankFeed(input), GetToken(self))

\* OperatorFeed with the re-dispatch through Blank left out
OperatorFeed_NoRedispatch(self, input) ==
    IF is_operator(input)
    THEN Ok(Operator(Append(self.value, input)), NoToken)
    ELSE Emit(self, Blank)

OperatorFeed(self, input) ==
    IF is_operator(input)
    THEN Ok(Operator(Append(self.value, input)), NoToken)
    ELSE IF IsWhitespace(input) \/ input = "\n" THEN Emit(self, Blank)
    ELSE UnwrapThen(BlankFeed(input), GetToken(self))

\* IdentFeed that sets the keyword flag and never clears it
IdentFeed_StickyKeyword(self, input) ==
    IF IsAlphanumeric(input) \/ input = "_"
    THEN IF self.is_keyword \/ Append(self.value, input) \in KEYWORD_LIST
         THEN Ok(Ident(Append(self.value, input), TRUE), NoToken)
         ELSE Ok(Ident(Append(self.value, input), FALSE), NoToken)
    ELSE IF is_operator(input) THEN Emit(self, Operator(<<input>>))
    ELSE IF input \in Brackets
         THEN UnwrapThen(BlankFeed(input), GetToken(self))
    ELSE IF IsWhitespace(input) \/ input = "\n" THEN Emit(self, Blank)
    ELSE Err

\* IdentFeed that ends the run at an operator character and drops it
IdentFeed_DropsOperator(self, input) ==
    IF IsAlphanumeric(input) \/ input = "_"
    THEN IF Append(self.value, input) \in KEYWORD_LIST
         THEN Ok(Ident(Append(self.value, input), TRUE), NoToken)
         ELSE Ok(Ident(Append(self.value, input), FALSE), NoToken)
    ELSE IF is_operator(input) THEN Emit(self, Blank)
    ELSE IF input \in Brackets
         THEN UnwrapThen(BlankFeed(input), GetToken(self))
    ELSE IF IsWhitespace(input) \/ input = "\n" THEN Emit(self, Blank)
    ELSE Err

IdentFeed(self, input) ==
    IF IsAlphanumeric(input) \/ input = "_"
    THEN IF Append(self.value, input) \in KEYWORD_LIST
         THEN Ok(Ident(Append(self.value, input), TRUE), NoToken)
         ELSE Ok(Ident(Append(self.value, input), FALSE), NoToken)
    ELSE IF is_operator(input) THEN Emit(self, Operator(<<input>>))
    ELSE IF input \in Brackets
         THEN UnwrapThen(BlankFeed(input), GetToken(self))
    ELSE IF IsWhitespace(input) \/ input = "\n" THEN Emit(self, Blank)
    ELSE Err

\* FloatFeed accepting a further '.' as NumberFeed accepts the first
FloatFeed_AcceptsDot(self, input) ==
    IF IsNumeric(input) \/ input = "."
    THEN Ok(Float(Append(self.value, input)), NoToken)
    ELSE IF IsWhitespace(input) \/ input = "\n" THEN Emit(self, Blank)
    ELSE Err

FloatFeed(self, input) ==
    IF IsNumeric(input) THEN Ok(Float(Append(self.value, input)), NoToken)
    ELSE IF IsWhitespace(input) \/ input = "\n" THEN Emit(self, Blank)
    ELSE Err

NumberFeed(self, input) ==
    IF IsNumeric(input) THEN Ok(Number(Append(self.value, input)), NoToken)
    ELSE IF input = "." THEN Ok(Float(Append(self.value, ".")), NoToken)
    ELSE IF input \in Brackets
         THEN UnwrapThen(BlankFeed(input), GetToken(self))
    ELSE IF IsWhitespace(input) \/ input = "\n" THEN Emit(self, Blank)
    ELSE Err

\* the dynamic dispatch of current_state.feed(input)
StateFeed(self, input) ==
    CASE self.kind = "Blank"    -> BlankFeed(input)
      [] self.kind = "Number"   -> NumberFeed(self, input)
      [] self.kind = "Float"    -> FloatFeed(self, input)
      [] self.kind = "Ident"    -> IdentFeed(self, input)
      [] self.kind = "Operator" -> OperatorFeed(self, input)
      [] self.kind = "Lpar"     -> LparFeed(self, input)
      [] self.kind = "Rpar"     -> RparFeed(self, input)
      [] self.kind = "Lbr"      -> LbrFeed(self, input)
      [] self.kind = "Rbr"      -> RbrFeed(self, input)

\* MachineFeed falling back to Blank when the state returns Err
MachineFeed_ResetOnError(current_state, input) ==
    IF StateFeed(current_state, input).res = "ok"
    THEN StateFeed(current_state, input)
    ELSE [res |-> StateFeed(current_state, input).res,
          state |-> Blank, token |-> NoToken]

\* ImagineMachine::feed: the outcome, the machine's state after it, the token
MachineFeed(current_state, input) ==
    IF StateFeed(current_state, input).res = "ok"
    THEN StateFeed(current_state, input)
    ELSE [res |-> StateFeed(current_state, input).res,
          state |-> current_state, token |-> NoToken]

\* ImagineMachine::get_final_token
GetFinalToken(current_state) == GetToken(current_state)

----------------------------------------------------------------------------
(* Input texts *)

\* the characters the bounded texts are drawn from
Alphabet ==
    {"1", "2", "i", "f", "_", "+", "=", "(", ")", "{", "}", " ", "\n",
     ".", "#", "U+00E9", "U+00BD"}

BoundedTexts == UNION { [1..n -> Alphabet] : n \in 0..MaxLen }

\* the text of the end-to-end scenario
ScenarioText ==
    <<"7", "2", " ", "3", ".", "1", "4", " ", "p", "l", "a", "y", "e", "r",
      " ", "i", "f", " ", "p", "l", "a", "y", "e", "r", "2", " ", "3", "6",
      " ", "1", "0", "0", " ", "-", "7", " ", "+", " ", "8", " ", "v", "a",
      "r", " ", "+", "=", " ", "1", "2", " ", "!", "b", "o", "o", "l", " ",
      "!", "(", "2", " ", "+", " ", "2", ")", " ", "b", "l", "o", "c", "k",
      "{", "c", "o", "d", "e", "}">>

\* the string literal of lex_test, which spans two source lines
LexTestText ==
    <<"7", "2", " ", "3", ".", "1", "4", " ", "p", "l", "a", "y", "e", "r",
      " ", "i", "f", "\n", " ", " ", " ", " ", " ", " ", " ", " ", "p",
      "l", "a", "y", "e", "r", "2", " ", "3", "6", " ", "1", "0", "0", " ",
      "-", "7", " ", "+", " ", "8", " ", "v", "a", "r", " ", "+", "=", " ",
      "1", "2", " ", "!", "b", "o", "o", "l", " ", "!", "(", "2", " ", "+",
      " ", "2", ")", " ", "b", "l", "o", "c", "k", "{", "c", "o", "d", "e",
      "}">>

\* i32::MAX and i32::MAX + 1, each followed by a delimiter
I32MaxText == <<"2", "1", "4", "7", "4", "8", "3", "6", "4", "7", " ">>

OverflowText == <<"2", "1", "4", "7", "4", "8", "3", "6", "4", "8", " ">>

OverflowBracketText == <<"2", "1", "4", "7", "4", "8", "3", "6", "4", "8", ")">>

OverflowEndText == <<"9", "9", "9", "9", "9", "9", "9", "9", "9", "9", "9">>

LongOperatorText == <<"<", "=", ">", "!", "~", " ", "x">>

\* tokens, then a letter fed onto a Number, then more text
FailFastText == <<"a", " ", "1", "a", " ", "b">>

\* an operator directly followed by an identifier
BangBoolText == <<"!", "b", "o", "o", "l">>

\* a number directly followed by an operator
SevenPlusEightText == <<"7", "+", "8">>

\* a Float that holds the numeric character U+00BD, then a whitespace
FloatNonAsciiText == <<"1", ".", "U+00BD", " ">>

SampleTexts ==
    {ScenarioText, LexTestText, I32MaxText, OverflowText,
     OverflowBracketText, OverflowEndText, LongOperatorText, FailFastText,
     BangBoolText, SevenPlusEightText, FloatNonAsciiText}

Texts == BoundedTexts \cup SampleTexts

----------------------------------------------------------------------------
(* The driver: ImagineLexer::get_new_token and ImagineLexer::lex *)

NoRet == [kind |-> "none", token |-> NoToken, is_last |-> FALSE]

NoFeed == [pre |-> Blank, ch |-> "", res |-> "none", token |-> NoToken]

Init ==
    /\ text \in Texts
    /\ pos = 0
    /\ state = Blank
    /\ caller = "none"
    /\ pc = "idle"
    /\ tokens = << >>
    /\ ret = NoRet
    /\ last = NoFeed
    /\ fed = << >>
    /\ nfeeds = 0
    /\ ncalls = 0
    /\ lexemes = << >>

\* LexOnToken without the push that follows the loop
LexOnToken_DropLast(token, is_last_token) ==
    IF is_last_token
    THEN tokens' = tokens /\ pc' = "done" /\ ncalls' = ncalls
    ELSE tokens' = Append(tokens, token) /\ pc' = "loop"
         /\ ncalls' = ncalls + 1

\* lex: what it does with Ok((token, is_last_token)) from get_new_token
LexOnToken(token, is_last_token) ==
    /\ tokens' = Append(tokens, token)
    /\ IF is_last_token
       THEN pc' = "done" /\ ncalls' = ncalls
       ELSE pc' = "loop" /\ ncalls' = ncalls + 1

\* LexOnError skipping the failed call instead of returning
LexOnError_KeepGoing ==
    /\ tokens' = tokens
    /\ pc' = "loop"
    /\ ncalls' = ncalls + 1

\* lex: the ? operator on Err from get_new_token
LexOnError ==
    /\ tokens' = << >>
    /\ pc' = "error"
    /\ ncalls' = ncalls

\* the text get_token turns into the token of a state: value, or the bracket
Lexeme(st) ==
    CASE st.kind = "Lpar" -> <<"(">>
      [] st.kind = "Rpar" -> <<")">>
      [] st.kind = "Lbr"  -> <<"{">>
      [] st.kind = "Rbr"  -> <<"}">>
      [] OTHER            -> st.value

\* get_new_token returns Ok((token, is_last)) to whoever called it
ReturnToken(token, is_last) ==
    /\ ret' = [kind |-> "token", token |-> token, is_last |-> is_last]
    /\ lexemes' = Append(lexemes, Lexeme(state))
    /\ IF caller = "lex" THEN LexOnToken(token, is_last)
       ELSE pc' = "idle" /\ UNCHANGED <<tokens, ncalls>>

\* get_new_token returns Err to whoever called it
ReturnError ==
    /\ ret' = [kind |-> "err", token |-> NoToken, is_last |-> FALSE]
    /\ lexemes' = lexemes
    /\ IF caller = "lex" THEN LexOnError
       ELSE pc' = "idle" /\ UNCHANGED <<tokens, ncalls>>

\* the caller runs lex(), which makes its first get_new_token call
CallLex ==
    /\ caller = "none" /\ pc = "idle"
    /\ caller' = "lex"
    /\ pc' = "loop"
    /\ tokens' = << >>
    /\ ncalls' = ncalls + 1
    /\ UNCHANGED <<text, pos, state, ret, last, fed, nfeeds, lexemes>>

\* the caller runs get_new_token() itself, any number of times
CallGetNewToken ==
    /\ caller \in {"none", "user"} /\ pc = "idle"
    /\ ncalls < MaxCalls
    /\ caller' = "user"
    /\ pc' = "loop"
    /\ ncalls' = ncalls + 1
    /\ UNCHANGED <<text, pos, state, tokens, ret, last, fed, nfeeds, lexemes>>

\* the loop condition of get_new_token: self.pos < self.text.len()
InLoop == pc = "loop" /\ pos < ByteLen(text)

\* self.text.chars().nth(self.pos) is Some
HasChar == pos < Len(text)

\* the record of one feed call
FeedRecord(r) ==
    [pre |-> state, ch |-> text[pos + 1], res |-> r.res, token |-> r.token]

\* chars().nth(pos) is None and unwrap() panics
NthPanic ==
    /\ InLoop /\ ~HasChar
    /\ pc' = "panic"
    /\ UNCHANGED <<text, pos, state, caller, tokens, ret, last, fed, nfeeds,
                   ncalls, lexemes>>

\* one iteration: feed returns Ok(None), the loop goes on
FeedNone ==
    /\ InLoop /\ HasChar
    /\ LET r == MachineFeed(state, text[pos + 1])
       IN  /\ r.res = "ok" /\ r.token = NoToken
           /\ pos' = pos + 1
           /\ state' = r.state
           /\ last' = FeedRecord(r)
           /\ nfeeds' = nfeeds + 1
    /\ UNCHANGED <<text, caller, pc, tokens, ret, fed, ncalls, lexemes>>

\* one iteration: feed returns Ok(Some(token)), get_new_token returns it
FeedToken ==
    /\ InLoop /\ HasChar
    /\ LET r == MachineFeed(state, text[pos + 1])
       IN  /\ r.res = "ok" /\ r.token # NoToken
           /\ pos' = pos + 1
           /\ state' = r.state
           /\ last' = FeedRecord(r)
           /\ nfeeds' = nfeeds + 1
           /\ fed' = Append(fed, r.token)
           /\ ReturnToken(r.token, FALSE)
    /\ UNCHANGED <<text, caller>>

\* FeedError with self.pos += 1 placed after the feed, so skipped by `?`
FeedError_NoAdvance ==
    /\ InLoop /\ HasChar
    /\ LET r == MachineFeed(state, text[pos + 1])
       IN  /\ r.res = "err"
           /\ pos' = pos
           /\ state' = r.state
           /\ last' = FeedRecord(r)
           /\ nfeeds' = nfeeds + 1
           /\ ReturnError
    /\ UNCHANGED <<text, caller, fed>>

\* one iteration: feed returns Err, the ? operator returns it
FeedError ==
    /\ InLoop /\ HasChar
    /\ LET r == MachineFeed(state, text[pos + 1])
       IN  /\ r.res = "err"
           /\ pos' = pos + 1
           /\ state' = r.state
           /\ last' = FeedRecord(r)
           /\ nfeeds' = nfeeds + 1
           /\ ReturnError
    /\ UNCHANGED <<text, caller, fed>>

\* one iteration: feed panics
FeedPanic ==
    /\ InLoop /\ HasChar
    /\ LET r == MachineFeed(state, text[pos + 1])
       IN  /\ r.res = "panic"
           /\ pos' = pos + 1
           /\ state' = r.state
           /\ last' = FeedRecord(r)
           /\ nfeeds' = nfeeds + 1
           /\ pc' = "panic"
    /\ UNCHANGED <<text, caller, tokens, ret, fed, ncalls, lexemes>>

\* the loop is over: Ok((self.machine.get_final_token(), true))
Final ==
    /\ pc = "loop" /\ ~(pos < ByteLen(text))
    /\ LET t == GetFinalToken(state)
       IN  /\ t.res = "ok"
           /\ ReturnToken(t.token, TRUE)
    /\ UNCHANGED <<text, pos, state, caller, last, fed, nfeeds>>

\* the loop is over and get_final_token panics
FinalPanic ==
    /\ pc = "loop" /\ ~(pos < ByteLen(text))
    /\ GetFinalToken(state).res = "panic"
    /\ pc' = "panic"
    /\ UNCHANGED <<text, pos, state, caller, tokens, ret, last, fed, nfeeds,
                   ncalls, lexemes>>

Next ==
    \/ CallLex
    \/ CallGetNewToken
    \/ NthPanic
    \/ FeedNone
    \/ FeedToken
    \/ FeedError
    \/ FeedPanic
    \/ Final
    \/ FinalPanic

Spec == Init /\ [][Next]_vars

----------------------------------------------------------------------------
(* Helpers of the properties *)

\* the longest run of characters of S that ends at position p of t
TrailingRun(t, p, S) ==
    SubSeq(t,
           CHOOSE k \in 1..(p + 1) :
               /\ \A j \in k..p : t[j] \in S
               /\ k = 1 \/ t[k - 1] \notin S,
           p)

OperatorChars == {"+", "-", "=", "/", "*", "!", "<", ">", "~", "|", "&", "^"}

IdentChars ==
    AsciiLetters \cup OtherLetters \cup Digits \cup OtherNumeric \cup {"_"}

\* a feed call has been made and `last` describes it
Fed == last.res # "none"

\* the latest feed call returned Some(token)
FeedEmitted == last.res = "ok" /\ last.token # NoToken

\* the rules of the Empty state accept c
EmptyAccepts(c) ==
    \/ c \in Digits \cup OtherNumeric
    \/ c \in AsciiLetters \cup OtherLetters \/ c = "_"
    \/ c \in Whitespace
    \/ c \in OperatorChars
    \/ c \in Brackets

\* no rule of the state kind k (section 4.1 of the specification) accepts c
Rejected(k, c) ==
    CASE k = "Blank"  -> ~EmptyAccepts(c)
      [] k = "Number" ->
           c \notin Digits \cup OtherNumeric \cup {"."} \cup Brackets
                           \cup Whitespace
      [] k = "Float"  -> c \notin Digits \cup OtherNumeric \cup Whitespace
      [] k = "Ident"  ->
           c \notin IdentChars \cup OperatorChars \cup Brackets
                               \cup Whitespace
      [] OTHER        -> ~EmptyAccepts(c)

BracketState(c) ==
    CASE c = "(" -> Lpar [] c = ")" -> Rpar [] c = "{" -> Lbr [] OTHER -> Rbr

BracketTok(c) ==
    CASE c = "(" -> LPAR [] c = ")" -> RPAR [] c = "{" -> LBR [] OTHER -> RBR

AllDigits(s) == s # << >> /\ \A i \in 1..Len(s) : s[i] \in Digits

\* lex is over, one way or another
LexEnded == caller = "lex" /\ pc \in {"done", "error", "panic"}

ScenarioTokens ==
    << NumberTok(72),
       FloatTok(314, 2),
       IdentTok(<<"p", "l", "a", "y", "e", "r">>),
       KeywordTok(<<"i", "f">>),
       IdentTok(<<"p", "l", "a", "y", "e", "r", "2">>),
       NumberTok(36),
       NumberTok(100),
       OperatorTok(<<"-">>),
       NumberTok(7),
       OperatorTok(<<"+">>),
       NumberTok(8),
       IdentTok(<<"v", "a", "r">>),
       OperatorTok(<<"+", "=">>),
       NumberTok(12),
       OperatorTok(<<"!">>),
       IdentTok(<<"b", "o", "o", "l">>),
       OperatorTok(<<"!">>),
       LPAR,
       NumberTok(2),
       OperatorTok(<<"+">>),
       NumberTok(2),
       RPAR,
       IdentTok(<<"b", "l", "o", "c", "k">>),
       LBR,
       IdentTok(<<"c", "o", "d", "e">>),
       RBR >>

----------------------------------------------------------------------------
(* C1: lex of the scenario text (and of the literal of lex_test) returns   *)
(* exactly the 26 tokens of the scenario, the last one being RBR, and      *)
(* neither fails nor panics.                                               *)

C1_ScenarioLex ==
    (caller = "lex" /\ text \in {ScenarioText, LexTestText}) =>
        /\ pc \notin {"error", "panic"}
        /\ pc = "done" => tokens = ScenarioTokens /\ Len(tokens) = 26

C1_Witness ==
    /\ caller = "lex" /\ text = ScenarioText
    /\ pc = "done" /\ tokens[26] = RBR

(* C2: a character that no rule of the current state accepts makes feed    *)
(* return the Syntax error; feed never panics on it.                       *)

C2_RejectedIsSyntaxError ==
    (Fed /\ Rejected(last.pre.kind, last.ch)) => last.res = "err"

(* C3: when feed returns the Syntax error the machine's state is the state *)
(* before the call, and the next feed call starts from that state.         *)

C3_ErrorKeepsState ==
    /\ [](last.res = "err" => state = last.pre)
    /\ [][(last.res = "err" /\ nfeeds' = nfeeds + 1)
            => last'.pre = last.pre]_vars

C3_Witness ==
    /\ ret.kind = "err" /\ last.res = "ok"
    /\ last.pre.kind = "Number" /\ state.kind = "Number"
    /\ pos = 3 /\ state.value = <<text[1], text[3]>>

(* C4: in lex, a feed that returns the Syntax error ends lex at once: lex  *)
(* returns the error and no tokens, every character up to the offending    *)
(* one has been fed once, and nothing is fed afterwards.                   *)

C4_LexFailsFast ==
    /\ []((caller = "lex" /\ last.res = "err") =>
            /\ pc = "error" /\ ret.kind = "err" /\ tokens = << >>
            /\ nfeeds = pos /\ text[pos] = last.ch)
    /\ []((caller = "lex" /\ pc = "error") => last.res = "err")
    /\ [][pc # "error"]_vars

C4_Witness ==
    /\ caller = "lex" /\ pc = "error"
    /\ Len(fed) >= 1 /\ pos < Len(text)

(* Helpers of C5..C10 *)

\* lex is running or has returned Ok: every character so far was accepted
LexClean == caller = "lex" /\ pc \in {"loop", "done"}

\* the positions of t where a run of characters of S starts
RunStarts(t, S) ==
    { i \in 1..Len(t) : t[i] \in S /\ (i = 1 \/ t[i - 1] \notin S) }

\* the positions of the tokens of type ty in the sequence ts
OfType(ts, ty) == { i \in 1..Len(ts) : ts[i].type = ty }

IdentOrKeyword(v) == IF v \in KEYWORD_LIST THEN KeywordTok(v) ELSE IdentTok(v)

\* a non-empty digit string, then nothing, a whitespace or a bracket
DigitsThenDelimiter(t) ==
    \/ AllDigits(t)
    \/ /\ Len(t) >= 2
       /\ AllDigits(SubSeq(t, 1, Len(t) - 1))
       /\ t[Len(t)] \in Whitespace \cup Brackets

DigitPrefix(t) ==
    IF AllDigits(t) THEN t ELSE SubSeq(t, 1, Len(t) - 1)

\* the part of C5 that does not depend on what ends the run
C5_Accumulates ==
    /\ (LexClean /\ state.kind = "Operator") =>
          /\ state.value # << >>
          /\ state.value = TrailingRun(text, pos, OperatorChars)
    /\ (Fed /\ last.pre.kind = "Operator" /\ last.ch \in OperatorChars) =>
          /\ last.res = "ok" /\ last.token = NoToken
          /\ state = Operator(Append(last.pre.value, last.ch))
    /\ (ret.is_last /\ state.kind = "Operator") =>
          ret.token = OperatorTok(state.value)
    /\ (caller = "lex" /\ pc = "done") =>
          Cardinality(OfType(tokens, "Operator"))
              = Cardinality(RunStarts(text, OperatorChars))

(* C5 (as claimed): a run of operator characters is accumulated without    *)
(* emitting, and whatever non-operator character ends it, feed emits one   *)
(* Operator token holding the whole run.                                   *)

C6_NumberThenBracket ==
    /\ (Fed /\ last.pre.kind = "Number" /\ AllDigits(last.pre.value)
            /\ last.ch \in Brackets) =>
          /\ last.res = "ok"
          /\ last.token.type = "Number"
          /\ state = BracketState(last.ch)
    /\ (LexEnded /\ text = <<"1", "2", ")">>) =>
          pc = "done" /\ tokens = <<NumberTok(12), RPAR>>

(* C7: an Ident state holds the whole identifier-shaped run that ends at   *)
(* the cursor, and the token for it, emitted by feed or taken at the end   *)
(* of the input, is Keyword when the run is in KEYWORD_LIST and Ident      *)
(* otherwise.                                                              *)

C7_KeywordIffMember ==
    /\ (LexClean /\ state.kind = "Ident") =>
          /\ state.value = TrailingRun(text, pos, IdentChars)
          /\ state.value[1] \in AsciiLetters \cup OtherLetters \cup {"_"}
    /\ (LexClean /\ FeedEmitted /\ last.pre.kind = "Ident") =>
          last.pre.value = TrailingRun(text, pos - 1, IdentChars)
    /\ (FeedEmitted /\ last.pre.kind = "Ident") =>
          last.token = IdentOrKeyword(last.pre.value)
    /\ (ret.is_last /\ state.kind = "Ident") =>
          ret.token = IdentOrKeyword(state.value)

C7_Witness ==
    /\ Len(text) = 3 /\ text[1] \in Brackets \cup OperatorChars
    /\ ret.is_last /\ ret.token = KeywordTok(<<"i", "f">>)

(* C8: lex of a non-empty string of ASCII digits followed by nothing, a    *)
(* whitespace or a bracket returns Ok, with exactly one Number token, the  *)
(* first, whose payload is the integer the digits denote; it never panics. *)

C8_DigitStringOneNumber ==
    (LexEnded /\ DigitsThenDelimiter(text)) =>
        /\ pc = "done"
        /\ Cardinality(OfType(tokens, "Number")) = 1
        /\ tokens[1] = NumberTok(DecimalVal(0, DigitPrefix(text)))

(* C9: feed never returns the Blank token; in the sequence lex returns     *)
(* Blank can only be the last element, and it is the last element exactly  *)
(* when the text is empty or ends with whitespace; lex of the empty text   *)
(* returns [Blank].                                                        *)

C9_BlankOnlyLast ==
    /\ last.token.type # "Blank"
    /\ \A i \in 1..Len(fed) : fed[i].type # "Blank"
    /\ (caller = "lex" /\ pc = "done") =>
          /\ \A i \in 1..(Len(tokens) - 1) : tokens[i].type # "Blank"
          /\ tokens[Len(tokens)] = BlankTok
               <=> (text = << >> \/ text[Len(text)] \in Whitespace)
    /\ (LexEnded /\ text = << >>) => pc = "done" /\ tokens = <<BlankTok>>

C9_Witness ==
    /\ caller = "lex" /\ pc = "done"
    /\ Len(tokens) >= 2 /\ tokens[Len(tokens)] = BlankTok

(* C10: the sequence lex returns is the tokens feed returned, in order,    *)
(* followed by the machine's final token taken with the cursor at the end  *)
(* of the text; get_new_token marks a token as last exactly when the loop  *)
(* condition failed and no feed of that iteration produced it; lex stops   *)
(* after the token marked last.                                            *)

C11_CursorByCharacter ==
    /\ InLoop => HasChar
    /\ pc # "panic" => nfeeds <= Len(text)
    /\ LexClean => nfeeds = pos /\ (pos > 0 => last.ch = text[pos])
    /\ ret.is_last => pos = Len(text)
    /\ (pc = "loop" /\ pos = Len(text)) => ~InLoop

(* C12: get_final_token reports the token of the accumulated lexeme of    *)
(* the current state (Number, Float, Ident or Keyword, Operator, bracket)  *)
(* and the sentinel for Empty, for every state the machine is in at the    *)
(* end of the input; the state is as the last feed left it, so after a     *)
(* final whitespace the token is the sentinel.                             *)

\* the token type of the lexeme a state holds
LexemeTokenType(st) ==
    CASE st.kind = "Number"   -> "Number"
      [] st.kind = "Float"    -> "Float"
      [] st.kind = "Ident"    -> IF st.is_keyword THEN "Keyword" ELSE "Ident"
      [] st.kind = "Operator" -> "Operator"
      [] st.kind = "Lpar"     -> "LPAR"
      [] st.kind = "Rpar"     -> "RPAR"
      [] st.kind = "Lbr"      -> "LBR"
      [] st.kind = "Rbr"      -> "RBR"
      [] OTHER                -> "Blank"

\* the panic came from get_final_token: the loop was over, no feed panicked
FinalTokenPanicked ==
    pc = "panic" /\ last.res # "panic" /\ ~(pos < ByteLen(text))

C12_FinalTokenOfState ==
    /\ ~FinalTokenPanicked
    /\ ret.is_last =>
         /\ ret.token.type = LexemeTokenType(state)
         /\ state.kind \in {"Ident", "Operator"} =>
                ret.token.str = state.value
         /\ state.kind = "Number" /\ AllDigits(state.value) =>
                ret.token.num = DecimalVal(0, state.value)
         /\ (last.res = "ok" /\ last.ch \in Whitespace) =>
                ret.token = BlankTok /\ state = Blank

(* C13: as the claim words it: within one Ident run, once the keyword     *)
(* flag has been true it is true in every later state of that run,         *)
(* whatever is appended.                                                   *)

\* a step of Ident::feed that appends to the run
IdentAppend == state.kind = "Ident" /\ state'.kind = "Ident" /\ state' # state

C13_KeywordNeverCleared ==
    [][(IdentAppend /\ state.is_keyword) => state'.is_keyword]_vars

(* C13, amended: the keyword flag of an Ident state is recomputed at every *)
(* append and is true exactly when the text accumulated so far is in the   *)
(* keyword set, so appending an identifier character to a run that spells  *)
(* a keyword ("if" to "ifx", "if1", "if_") clears the flag.                *)

C13_KeywordFollowsText ==
    [][IdentAppend =>
          /\ state'.value = Append(state.value, last'.ch)
          /\ state'.is_keyword <=> (state'.value \in KEYWORD_LIST)
          /\ state.is_keyword => ~state'.is_keyword]_vars

C13_Witness ==
    /\ state.kind = "Ident"
    /\ ~state.is_keyword
    /\ last.pre.kind = "Ident"
    /\ last.pre.is_keyword
    /\ state.value = Append(last.pre.value, last.ch)

(* C14: in every state the machine reaches by feeds from Empty: the text  *)
(* of a Number state is non-empty and holds only digit characters (the     *)
(* characters of char::is_numeric), the text of a Float state holds        *)
(* exactly one '.', the text of an Operator state is non-empty and holds   *)
(* only operator characters, and the text of an Ident state starts with a  *)
(* letter or '_'.                                                          *)

FromEmpty(c) ==
    IF c \in Digits \cup OtherNumeric THEN Number(<<c>>)
    ELSE IF c \in AsciiLetters \cup OtherLetters \cup {"_"}
         THEN Ident(<<c>>, FALSE)
    ELSE IF c \in OperatorChars THEN Operator(<<c>>)
    ELSE IF c \in Brackets THEN BracketState(c)
    ELSE Blank

C15_OperatorRedispatch ==
    /\ (/\ Fed
        /\ last.pre.kind = "Operator"
        /\ last.ch \in Digits \cup OtherNumeric \cup AsciiLetters
                       \cup OtherLetters \cup {"_"} \cup Brackets) =>
          /\ last.res = "ok"
          /\ last.token = OperatorTok(last.pre.value)
          /\ state = FromEmpty(last.ch)
    /\ (LexEnded /\ text = BangBoolText) =>
          /\ pc = "done"
          /\ tokens = << OperatorTok(<<"!">>),
                         IdentTok(<<"b", "o", "o", "l">>) >>

C15_Witness ==
    /\ text = BangBoolText
    /\ last.pre = Operator(<<"!">>)
    /\ last.ch = "b"
    /\ last.token = OperatorTok(<<"!">>)
    /\ state = Ident(<<"b">>, FALSE)

(* C16: as the claim words it: each of the four bracket states emits its  *)
(* own bracket token on the very next character fed, whatever that         *)
(* character is; on whitespace the next state is Empty, on any other       *)
(* character Empty accepts it is Empty's target; n consecutive brackets    *)
(* give n bracket tokens in source order.                                  *)

\* the token of a bracket state
BracketKindTok(k) ==
    CASE k = "Lpar" -> LPAR [] k = "Rpar" -> RPAR [] k = "Lbr" -> LBR
      [] OTHER -> RBR

AllBrackets(t) == t # << >> /\ \A i \in 1..Len(t) : t[i] \in Brackets

BracketRunTokens ==
    (LexEnded /\ AllBrackets(text)) =>
        /\ pc = "done"
        /\ tokens = [i \in 1..Len(text) |-> BracketTok(text[i])]

C17_FloatTransitions ==
    (Fed /\ last.pre.kind = "Float") =>
        IF last.ch \in Digits \cup OtherNumeric
        THEN /\ last.res = "ok"
             /\ last.token = NoToken
             /\ state = Float(Append(last.pre.value, last.ch))
        ELSE IF last.ch \in Whitespace
        THEN /\ last.res = "ok"
             /\ last.token.type = "Float"
             /\ state = Blank
        ELSE /\ last.res = "err"
             /\ state = last.pre

(* C18: in the Number state (here: one holding ASCII digits) a digit is   *)
(* appended and '.' moves to a Float whose text is the digits and the '.', *)
(* both without a token; whitespace emits the Number token and moves to    *)
(* Empty; every character other than a digit, '.', a bracket or whitespace *)
(* returns the Syntax error, so "7+8" is a Syntax error.                   *)

C18_NumberTransitions ==
    /\ (Fed /\ last.pre.kind = "Number" /\ AllDigits(last.pre.value)) =>
          IF last.ch \in Digits \cup OtherNumeric
          THEN /\ last.res = "ok"
               /\ last.token = NoToken
               /\ state = Number(Append(last.pre.value, last.ch))
          ELSE IF last.ch = "."
          THEN /\ last.res = "ok"
               /\ last.token = NoToken
               /\ state = Float(Append(last.pre.value, "."))
          ELSE IF last.ch \in Whitespace
          THEN /\ last.res = "ok"
               /\ last.token.type = "Number"
               /\ state = Blank
          ELSE IF last.ch \in Brackets
          THEN TRUE
          ELSE /\ last.res = "err"
               /\ state = last.pre
    /\ (LexEnded /\ text = SevenPlusEightText) =>
          pc = "error" /\ pos = 2

(* C19: from the Empty state no character emits a token: a digit starts a *)
(* Number holding it, a letter or '_' an Ident holding it, an operator     *)
(* character an Operator whose pending token is Operator(that character),  *)
(* a bracket the matching bracket state, whitespace or newline stays in    *)
(* Empty, and any other character (for example '.') returns the Syntax     *)
(* error.                                                                  *)

LexMeasure(p, c) ==
    2 * (ByteLen(text) - p)
      + (IF c = "idle" THEN 2 ELSE IF c = "loop" THEN 1 ELSE 0)

\* a step that feeds one character
FeedStep == nfeeds' = nfeeds + 1

\* a step in which a get_new_token call returns to its caller
ReturnStep ==
    pc = "loop" /\ (pc' \in {"idle", "done", "error"} \/ ncalls' > ncalls)

C20_CursorSteps ==
    [][/\ FeedStep <=> pos' = pos + 1
       /\ ~FeedStep => pos' = pos
       /\ ReturnStep => (pos' = pos + 1 \/ ret'.is_last)
       /\ caller' = "lex" => LexMeasure(pos', pc') < LexMeasure(pos, pc)]_vars

C20_CallBound ==
    /\ pos <= ByteLen(text)
    /\ LexMeasure(pos, pc) >= 0
    /\ caller = "lex" => ncalls <= Len(text) + 1
    /\ (pc = "loop" /\ InLoop /\ HasChar) =>
          MachineFeed(state, text[pos + 1]).res \in {"ok", "err", "panic"}
    /\ (pc = "loop" /\ ~InLoop) =>
          GetFinalToken(state).res \in {"ok", "panic"}

C20_LexTerminates ==
    /\ C20_CursorSteps
    /\ []C20_CallBound
    /\ [](caller = "lex" => pc # "panic")

(* C21: no accepted character is lost or duplicated: when lex returns a   *)
(* sequence, the lexemes behind its tokens (the accumulated text of a      *)
(* Number, Float, Ident, Keyword or Operator token, the one character of a *)
(* bracket token, nothing for the sentinel), concatenated in output order, *)
(* are the input text with all whitespace characters removed.              *)

RECURSIVE Concat(_)
\* the concatenation of a sequence of sequences
Concat(ss) == IF ss = << >> THEN << >> ELSE Head(ss) \o Concat(Tail(ss))

RECURSIVE WithoutWhitespace(_)
\* the text with its whitespace characters removed
WithoutWhitespace(t) ==
    IF t = << >> THEN << >>
    ELSE IF Head(t) \in Whitespace THEN WithoutWhitespace(Tail(t))
    ELSE <<Head(t)>> \o WithoutWhitespace(Tail(t))

\* tok is the token of the lexeme lx
TokenOfLexeme(tok, lx) ==
    CASE tok.type \in {"Ident", "Keyword", "Operator"} ->
             lx # << >> /\ tok.str = lx
      [] tok.type = "Number" ->
             AllDigits(lx) /\ tok.num = DecimalVal(0, lx)
      [] tok.type = "Float" ->
             tok = FloatTok(ParseF32(lx).mant, ParseF32(lx).scale)
      [] tok.type \in {"LPAR", "RPAR", "LBR", "RBR"} ->
             Len(lx) = 1 /\ lx[1] \in Brackets /\ tok = BracketTok(lx[1])
      [] OTHER -> tok = BlankTok /\ lx = << >>

C21_NoCharacterLost ==
    (caller = "lex" /\ pc = "done") =>
        /\ Len(lexemes) = Len(tokens)
        /\ \A i \in 1..Len(tokens) : TokenOfLexeme(tokens[i], lexemes[i])
        /\ Concat(lexemes) = WithoutWhitespace(text)

\* lex has returned the 26 tokens of the scenario text, whitespace dropped
C21_Witness ==
    /\ caller = "lex"
    /\ pc = "done"
    /\ text = ScenarioText
    /\ Len(lexemes) = 26
    /\ Len(Concat(lexemes)) < Len(text)

(* C22: when get_new_token returns the Syntax error for the character at  *)
(* index i, the cursor is i + 1 and the machine's state is the state       *)
(* before that feed; the next feed, in a further get_new_token call, is of *)
(* the character at i + 1 into that state; so the machine's state and the  *)
(* tokens feed has returned are those of the text without the rejected     *)
(* characters, on which no feed fails.                                     *)

RECURSIVE Accepted(_, _)
\* the characters of s that feed, starting in state st, does not reject
Accepted(st, s) ==
    IF s = << >> THEN << >>
    ELSE IF MachineFeed(st, Head(s)).res = "err" THEN Accepted(st, Tail(s))
    ELSE <<Head(s)>> \o Accepted(MachineFeed(st, Head(s)).state, Tail(s))

RECURSIVE Replay(_, _, _)
\* feed called once per character of s, starting in state st with the tokens
\* toks returned so far: <<every call returned Ok, the state, the tokens>>
Replay(st, s, toks) ==
    IF s = << >> THEN <<TRUE, st, toks>>
    ELSE IF MachineFeed(st, Head(s)).res # "ok" THEN <<FALSE, st, toks>>
    ELSE Replay(MachineFeed(st, Head(s)).state, Tail(s),
                IF MachineFeed(st, Head(s)).token = NoToken THEN toks
                ELSE Append(toks, MachineFeed(st, Head(s)).token))

\* the text up to the cursor
Consumed == SubSeq(text, 1, pos)

C22_AsIfAbsent ==
    pc # "panic" =>
        Replay(Blank, Accepted(Blank, Consumed), << >>) = <<TRUE, state, fed>>

C22_ErrorSkipsCharacter ==
    /\ [][(FeedStep /\ last'.res = "err") =>
             /\ last'.ch = text[pos + 1]
             /\ pos' = pos + 1
             /\ state' = state
             /\ ret'.kind = "err"
             /\ caller = "user" => pc' = "idle"]_vars
    /\ [][(FeedStep /\ last.res = "err") =>
             /\ last'.ch = text[pos + 1]
             /\ last'.pre = last.pre
             /\ pos' = pos + 1]_vars
    /\ []C22_AsIfAbsent

\* '.' was rejected after "i"; the next call fed "f" and the run spells "if"
C22_Witness ==
    /\ caller = "user"
    /\ text = <<"i", ".", "f">>
    /\ pos = 3
    /\ state = Ident(<<"i", "f">>, TRUE)
    /\ Accepted(Blank, Consumed) = <<"i", "f">>

====
